---- MODULE Spec2Model ----
(***************************************************************************)
(* A model of skills/youtube/scripts/yt.py: the paginator (_paginate), the *)
(* batch detail fetcher (_fetch_video_details), the update handler         *)
(* (cmd_videos_update) and the credential store (get_service).             *)
(*                                                                         *)
(* Each component is a sequential procedure; it has its own variables, its *)
(* own initial condition and its own specification (SpecPaginate,          *)
(* SpecFetch, SpecUpdate, SpecAuth).  The variables of the components a    *)
(* specification does not run are pinned to their idle values.             *)
(***************************************************************************)
EXTENDS Integers, Sequences, FiniteSets, TLC

VARIABLES
    \* _paginate
    pgPages,        \* the remote list: a sequence of pages, each a sequence of items
    pgLimitGiven,   \* FALSE: limit is None
    pgLimit,        \* the limit (meaningful when pgLimitGiven)
    collected,      \* local `collected`
    next_page,      \* local `next_page` (NoCursor: None)
    pgCalls,        \* the pageToken of every list call issued, in order (NoCursor: no pageToken)
    pgResult,       \* the value returned
    pgPc,           \* "loop" | "return" | "done" | "idle"
    \* _fetch_video_details
    video_ids,      \* argument `video_ids`
    fdDeleted,      \* ids the remote no longer has
    fdI,            \* loop variable `i` of range(0, len(video_ids), 50)
    details,        \* local `details`: a function from ids to records
    fdCalls,        \* the id list of every videos.list call issued, in order
    fdResponses,    \* the item set of every response, in order
    fdPc,           \* "loop" | "done" | "idle"
    \* cmd_videos_update
    upArgs,         \* args: title, description, tags, category, privacy, publish_at
    upRemote,       \* what videos.list will answer: "found" | "missing" | "error"
    upFetched,      \* the record the remote holds (answered when "found")
    snippet,        \* local `snippet`
    status,         \* local `status`
    upWrites,       \* the body of every videos.update call issued, in order
    upStdout,       \* messages printed on standard output
    upStderr,       \* messages printed on the error stream
    upExit,         \* the process exit code, once the handler has ended
    upPc,           \* "fetch" | "overlay" | "write" | "done" | "exited" | "idle"
    \* get_service
    credFile,       \* CREDENTIALS_FILE: NoFile, Malformed or <<credential>>
    credFile0,      \* its content when get_service was entered
    secretsExist,   \* CLIENT_SECRETS_FILE.exists()
    depsOk,         \* the three imports of _check_deps succeed
    creds,          \* local `creds`: None (<<>>) or <<credential>>
    auRefreshCalls, \* number of creds.refresh(Request()) calls
    auConsentRuns,  \* number of flow.run_local_server() calls
    auFileWrites,   \* number of CREDENTIALS_FILE.write_text() calls
    auPath,         \* how `creds` was obtained: "none" | "refreshed" | "consented"
    auStderr,       \* messages printed on the error stream
    auExit,         \* the process exit code, once get_service has ended the process
    auPc,           \* "check_deps" | "load" | "decide" | "refresh" | "consent" | "save"
                    \* | "build" | "done" | "exited" | "raised" | "idle"
    \* cmd_videos_delete, cmd_playlists_delete
    dlKind,         \* which handler runs: "videos" | "playlists"
    dlYes,          \* args.yes
    dlStdin,        \* what input() gives: Eof, or <<line>>
    dlDeletes,      \* the delete calls issued, in order
    dlStdout,       \* messages printed on standard output
    dlStderr,       \* messages printed on the error stream
    dlExit,         \* the process exit code
    dlPc,           \* "confirm" | "delete" | "done" | "returned" | "exited" | "raised" | "idle"
    \* cmd_bulk_update
    buFileExists,   \* csv_path.exists()
    buHeader,       \* the column names of the CSV header row
    rows,           \* local `rows`: one record per data row, from column name to cell
    buRemote,       \* the ids the remote has a video for
    buIds,          \* local `ids`
    buI,            \* loop variable `i` of _fetch_video_details
    current,        \* local `current`: a function from ids to records
    buFetched,      \* `current` as _fetch_video_details returned it
    buRow,          \* the number of rows the row loop has processed
    updated,        \* local `updated`
    skipped,        \* local `skipped`
    buCalls,        \* every remote call issued, in order
    buWritesOk,     \* the number of videos.update calls that succeeded
    buStdout,       \* messages printed on standard output
    buStderr,       \* messages printed on the error stream
    buExit,         \* the process exit code
    buPc            \* "open" | "fetch" | "rows" | "done" | "returned" | "exited" | "idle"

pgVars == <<pgPages, pgLimitGiven, pgLimit, collected, next_page, pgCalls, pgResult, pgPc>>
fdVars == <<video_ids, fdDeleted, fdI, details, fdCalls, fdResponses, fdPc>>
upVars == <<upArgs, upRemote, upFetched, snippet, status, upWrites, upStdout, upStderr,
           upExit, upPc>>
auVars == <<credFile, credFile0, secretsExist, depsOk, creds, auRefreshCalls, auConsentRuns,
           auFileWrites, auPath, auStderr, auExit, auPc>>
dlVars == <<dlKind, dlYes, dlStdin, dlDeletes, dlStdout, dlStderr, dlExit, dlPc>>
buVars == <<buFileExists, buHeader, rows, buRemote, buIds, buI, current, buFetched, buRow,
           updated, skipped, buCalls, buWritesOk, buStdout, buStderr, buExit, buPc>>
vars == <<pgVars, fdVars, upVars, auVars, dlVars, buVars>>

Min(a, b) == IF a <= b THEN a ELSE b
Max(a, b) == IF a >= b THEN a ELSE b

(***************************************************************************)
(* _paginate                                                               *)
(***************************************************************************)
MaxPages == 3
MaxPageSize == 2
MaxLimit == 4

\* None / a missing "nextPageToken": falsy in `if next_page` and `not next_page`.
NoCursor == 0

\* The item at position p of page j.
Item(j, p) == <<j, p>>

\* A page of n items, in response order.
Page(j, n) == [p \in 1..n |-> Item(j, p)]

\* The remote list operation: method(**params).execute().  Without a pageToken
\* it answers the first page; with the cursor of a page it answers that page.
\* Every page but the last carries the cursor of the next one.
ListResponse(pages, token) ==
    LET j == IF token = NoCursor THEN 1 ELSE token
    IN  [items |-> pages[j],
         nextPageToken |-> IF j < Len(pages) THEN j + 1 ELSE NoCursor]

\* Python's seq[:k] for an integer k (a negative k counts from the end).
SliceTo(seq, k) ==
    IF k >= 0 THEN SubSeq(seq, 1, Min(k, Len(seq)))
    ELSE SubSeq(seq, 1, Max(0, Len(seq) + k))

\* Line 141: not next_page or (limit is not None and len(collected) >= limit)
PgBreakOnFirstPage(cursor, given, limit, n) == TRUE
PgBreakIgnoringLimit(cursor, given, limit, n) == cursor = NoCursor
PgBreak(cursor, given, limit, n) ==
    cursor = NoCursor \/ (given /\ n >= limit)

\* Line 143: collected[:limit] if limit else collected
\* (`if limit` is false for None and for 0)
PgReturnValue(seq, given, limit) ==
    IF given /\ limit # 0 THEN SliceTo(seq, limit) ELSE seq

PgInit ==
    /\ \E n \in 1..MaxPages :
         \E sizes \in [1..n -> 0..MaxPageSize] :
            pgPages = [j \in 1..n |-> Page(j, sizes[j])]
    /\ pgLimitGiven \in BOOLEAN
    /\ pgLimit \in IF pgLimitGiven THEN 0..MaxLimit ELSE {0}
    /\ collected = <<>>
    /\ next_page = NoCursor
    /\ pgCalls = <<>>
    /\ pgResult = <<>>
    /\ pgPc = "loop"

PgIdle ==
    /\ pgPages = <<>>
    /\ pgLimitGiven = FALSE
    /\ pgLimit = 0
    /\ collected = <<>>
    /\ next_page = NoCursor
    /\ pgCalls = <<>>
    /\ pgResult = <<>>
    /\ pgPc = "idle"

\* Lines 134-142: one iteration of the while loop.
PgIterate ==
    /\ pgPc = "loop"
    /\ LET resp == ListResponse(pgPages, next_page)
           acc == collected \o resp.items
       IN  /\ pgCalls' = Append(pgCalls, next_page)
           /\ collected' = acc
           /\ next_page' = resp.nextPageToken
           /\ pgPc' = IF PgBreak(resp.nextPageToken, pgLimitGiven, pgLimit, Len(acc))
                      THEN "return" ELSE "loop"
    /\ UNCHANGED <<pgPages, pgLimitGiven, pgLimit, pgResult, fdVars, upVars, auVars, dlVars, buVars>>

\* Line 143.
PgReturn ==
    /\ pgPc = "return"
    /\ pgResult' = PgReturnValue(collected, pgLimitGiven, pgLimit)
    /\ pgPc' = "done"
    /\ UNCHANGED <<pgPages, pgLimitGiven, pgLimit, collected, next_page, pgCalls, fdVars, upVars, auVars, dlVars, buVars>>

(***************************************************************************)
(* _fetch_video_details                                                    *)
(***************************************************************************)
ChunkSize == 50
MaxIds == 120
\* With duplicates, the id list repeats with this period.
DupPeriod == 60

\* The record the remote holds for an id.
VideoRecord(id) == [id |-> id, kind |-> "youtube#video"]

Range(seq) == {seq[k] : k \in 1..Len(seq)}

\* Line 150: video_ids[i : i + 50]  (i is 0-based)
BatchOverlapping(ids, i) == SubSeq(ids, Max(i, 1), Min(i + ChunkSize, Len(ids)))
Batch(ids, i) == SubSeq(ids, i + 1, Min(i + ChunkSize, Len(ids)))

\* youtube.videos().list(id=",".join(batch)).execute(): one record per
\* requested id the remote still has.
DetailResponse(batch, deleted) == {VideoRecord(id) : id \in Range(batch) \ deleted}

\* Lines 152-153: details[item["id"]] = item, for every item of the response.
Merge(d, items) ==
    [id \in DOMAIN d \cup {r.id : r \in items} |->
        IF \E r \in items : r.id = id
        THEN CHOOSE r \in items : r.id = id
        ELSE d[id]]

\* Line 149: range(0, len(video_ids), 50) has a next value after i.
FdMoreStopOnMissing(ids, i, d) ==
    /\ i < Len(ids)
    /\ \A k \in 1..i : ids[k] \in DOMAIN d
FdMore(ids, i, d) == i < Len(ids)

FdInit ==
    /\ \E n \in 0..MaxIds, dup \in BOOLEAN :
         video_ids = [k \in 1..n |-> IF dup THEN ((k - 1) % DupPeriod) + 1 ELSE k]
    /\ fdDeleted \in SUBSET {1, ChunkSize, ChunkSize + 1, MaxIds}
    /\ fdI = 0
    /\ details = <<>>
    /\ fdCalls = <<>>
    /\ fdResponses = <<>>
    /\ fdPc = "loop"

FdIdle ==
    /\ video_ids = <<>>
    /\ fdDeleted = {}
    /\ fdI = 0
    /\ details = <<>>
    /\ fdCalls = <<>>
    /\ fdResponses = <<>>
    /\ fdPc = "idle"

\* Lines 149-153: one iteration of the for loop.
FdIterate ==
    /\ fdPc = "loop"
    /\ FdMore(video_ids, fdI, details)
    /\ LET batch == Batch(video_ids, fdI)
           items == DetailResponse(batch, fdDeleted)
       IN  /\ fdCalls' = Append(fdCalls, batch)
           /\ fdResponses' = Append(fdResponses, items)
           /\ details' = Merge(details, items)
    /\ fdI' = fdI + ChunkSize
    /\ UNCHANGED <<video_ids, fdDeleted, fdPc, pgVars, upVars, auVars, dlVars, buVars>>

\* Line 154: the range is exhausted; return details.
FdReturn ==
    /\ fdPc = "loop"
    /\ ~FdMore(video_ids, fdI, details)
    /\ fdPc' = "done"
    /\ UNCHANGED <<video_ids, fdDeleted, fdI, details, fdCalls, fdResponses, pgVars, upVars, auVars, dlVars, buVars>>

(***************************************************************************)
(* cmd_videos_update                                                       *)
(***************************************************************************)
\* An optional value: None is <<>>, a supplied value v is <<v>>.
None == <<>>
Some(v) == <<v>>

\* Strings the code takes apart are sequences of characters.
IsSpace(c) == c \in {" ", "\t"}

\* str.strip()
RECURSIVE LStrip(_)
LStrip(s) == IF s # <<>> /\ IsSpace(Head(s)) THEN LStrip(Tail(s)) ELSE s
RECURSIVE RStrip(_)
RStrip(s) ==
    IF s # <<>> /\ IsSpace(s[Len(s)]) THEN RStrip(SubSeq(s, 1, Len(s) - 1)) ELSE s
Strip(s) == RStrip(LStrip(s))

\* str.split(sep): the pieces between the separators ("".split(sep) is [""]).
RECURSIVE Split(_, _)
Split(s, sep) ==
    IF \A k \in 1..Len(s) : s[k] # sep THEN <<s>>
    ELSE LET k == CHOOSE k \in 1..Len(s) :
                     s[k] = sep /\ \A m \in 1..(k - 1) : s[m] # sep
         IN  <<SubSeq(s, 1, k - 1)>> \o Split(SubSeq(s, k + 1, Len(s)), sep)

\* Line 370: [t.strip() for t in s.split(sep) if t.strip()]
RECURSIVE StripNonEmpty(_)
StripNonEmpty(pieces) ==
    IF pieces = <<>> THEN <<>>
    ELSE (IF Strip(Head(pieces)) # <<>> THEN <<Strip(Head(pieces))>> ELSE <<>>)
         \o StripNonEmpty(Tail(pieces))
ParseTags(s, sep) == StripNonEmpty(Split(s, sep))

\* The values of the flags the model draws from; None: the flag is not given.
TitleArgs == {None, Some(""), Some("New title")}
DescriptionArgs == {None, Some("")}
TagsArgs == {None, Some(<<" ", "a", ",", ",", "b", " ">>)}
CategoryArgs == {None, Some("10")}
PrivacyArgs == {None, Some("public"), Some("private"), Some("unlisted")}
PublishAtArgs == {None, Some("2031-01-01T00:00:00Z")}

\* The records videos.list(part="snippet,status") may answer.  A status
\* without "publishAt" has publishAt = None.
RemoteSnippet ==
    [title |-> "Old title", description |-> "Old description",
     tags |-> <<<<"o", "l", "d">>>>, categoryId |-> "22",
     channelId |-> "UC1", defaultLanguage |-> "en"]
RemoteStatuses ==
    [privacyStatus : {"public", "private", "unlisted"},
     publishAt : {None, Some("2030-06-01T00:00:00Z")},
     license : {"youtube"}, embeddable : {TRUE}]

\* Lines 363-374: the snippet after the supplied flags are laid over it.
SnippetOnlySupplied(sn, args) ==
    [sn EXCEPT !.title = IF args.title # None THEN args.title[1] ELSE "",
               !.description = IF args.description # None THEN args.description[1] ELSE "",
               !.tags = IF args.tags # None THEN ParseTags(args.tags[1], ",") ELSE <<>>,
               !.categoryId = IF args.category # None THEN args.category[1] ELSE ""]
OverlaySnippet(sn, args) ==
    [sn EXCEPT !.title = IF args.title # None THEN args.title[1] ELSE @,
               !.description = IF args.description # None THEN args.description[1] ELSE @,
               !.tags = IF args.tags # None THEN ParseTags(args.tags[1], ",") ELSE @,
               !.categoryId = IF args.category # None THEN args.category[1] ELSE @]

\* Lines 375-380: the status after the supplied flags are laid over it; a
\* supplied publish_at also sets privacyStatus to "private", after privacy.
OverlayStatus(st, args) ==
    LET s1 == IF args.privacy # None
              THEN [st EXCEPT !.privacyStatus = args.privacy[1]] ELSE st
    IN  IF args.publish_at # None
        THEN [s1 EXCEPT !.publishAt = Some(args.publish_at[1]),
                        !.privacyStatus = "private"]
        ELSE s1

\* Lines 361-381: `changed` after the six tests (`is not None`).
ChangedAlways(args) == TRUE
Changed(args) ==
    \/ args.title # None
    \/ args.description # None
    \/ args.tags # None
    \/ args.category # None
    \/ args.privacy # None
    \/ args.publish_at # None

\* The id of the video the command names.
VideoId == "vid1"

UpInit ==
    /\ upArgs \in [title : TitleArgs, description : DescriptionArgs, tags : TagsArgs,
                   category : CategoryArgs, privacy : PrivacyArgs,
                   publish_at : PublishAtArgs]
    /\ upRemote \in {"found", "missing", "error"}
    /\ upFetched \in [id : {VideoId}, snippet : {RemoteSnippet}, status : RemoteStatuses]
    /\ snippet = None
    /\ status = None
    /\ upWrites = <<>>
    /\ upStdout = <<>>
    /\ upStderr = <<>>
    /\ upExit = 0
    /\ upPc = "fetch"

UpIdle ==
    /\ upArgs = None
    /\ upRemote = "missing"
    /\ upFetched = None
    /\ snippet = None
    /\ status = None
    /\ upWrites = <<>>
    /\ upStdout = <<>>
    /\ upStderr = <<>>
    /\ upExit = 0
    /\ upPc = "idle"

\* Lines 352-359: fetch the video.  An empty answer ends the process with
\* exit code 1; an API error is raised to main (lines 897-909), which prints
\* it on the error stream and exits with code 1.
UpFetch ==
    /\ upPc = "fetch"
    /\ \/ /\ upRemote = "found"
          /\ snippet' = upFetched.snippet
          /\ status' = upFetched.status
          /\ upPc' = "overlay"
          /\ UNCHANGED <<upStderr, upExit>>
       \/ /\ upRemote = "missing"
          /\ upStderr' = Append(upStderr, "Video not found")
          /\ upExit' = 1
          /\ upPc' = "exited"
          /\ UNCHANGED <<snippet, status>>
       \/ /\ upRemote = "error"
          /\ upStderr' = Append(upStderr, "YouTube API error")
          /\ upExit' = 1
          /\ upPc' = "exited"
          /\ UNCHANGED <<snippet, status>>
    /\ UNCHANGED <<upArgs, upRemote, upFetched, upWrites, upStdout, pgVars, fdVars, auVars, dlVars, buVars>>

\* Lines 361-385: lay the supplied flags over the record; with no flag
\* supplied print "Nothing to update" (on standard output) and exit with 1.
UpOverlay ==
    /\ upPc = "overlay"
    /\ snippet' = OverlaySnippet(snippet, upArgs)
    /\ status' = OverlayStatus(status, upArgs)
    /\ IF Changed(upArgs)
       THEN /\ upPc' = "write"
            /\ UNCHANGED <<upStdout, upExit>>
       ELSE /\ upStdout' = Append(upStdout, "Nothing to update")
            /\ upExit' = 1
            /\ upPc' = "exited"
    /\ UNCHANGED <<upArgs, upRemote, upFetched, upWrites, upStderr, pgVars, fdVars, auVars, dlVars, buVars>>

\* Lines 387-394: the one videos.update call, then the report; an API error
\* is raised to main, which prints it on the error stream and exits with 1.
UpWrite ==
    /\ upPc = "write"
    /\ upWrites' = Append(upWrites, [id |-> VideoId, snippet |-> snippet, status |-> status])
    /\ \/ /\ upStdout' = Append(upStdout, "Updated")
          /\ upPc' = "done"
          /\ UNCHANGED <<upStderr, upExit>>
       \/ /\ upStderr' = Append(upStderr, "YouTube API error")
          /\ upExit' = 1
          /\ upPc' = "exited"
          /\ UNCHANGED upStdout
    /\ UNCHANGED <<upArgs, upRemote, upFetched, snippet, status, pgVars, fdVars, auVars, dlVars, buVars>>

(***************************************************************************)
(* get_service                                                             *)
(***************************************************************************)
\* CREDENTIALS_FILE does not exist / holds no authorized-user document.
NoFile == <<>>
Malformed == <<[malformed |-> TRUE]>>

\* Access tokens: none, the one cached in the file, the one a refresh
\* answers, the one the consent flow answers.
NoToken == 0
CachedToken == 1
RefreshedToken == 2
ConsentToken == 3

\* A credential: its access token, whether its expiry has passed
\* (creds.expired) and whether it carries a refresh token.
Credentials == [token : {NoToken, CachedToken}, expired : BOOLEAN, refresh_token : BOOLEAN]

\* creds.valid: there is an access token and it is not expired.
Valid(c) == c.token # NoToken /\ ~c.expired

\* Lines 81-96: which branch get_service takes once the file is loaded.
BranchRefreshWheneverPossible(cr, secrets) ==
    IF cr # None /\ cr[1].refresh_token THEN "refresh"
    ELSE IF cr # None /\ Valid(cr[1]) THEN "build"
    ELSE IF ~secrets THEN "exit"
    ELSE "consent"
BranchNeverRefresh(cr, secrets) ==
    IF cr # None /\ Valid(cr[1]) THEN "build"
    ELSE IF ~secrets THEN "exit"
    ELSE "consent"
BranchNoSecretsCheck(cr, secrets) ==
    IF cr # None /\ Valid(cr[1]) THEN "build"
    ELSE IF cr # None /\ cr[1].expired /\ cr[1].refresh_token THEN "refresh"
    ELSE "consent"
Branch(cr, secrets) ==
    IF cr # None /\ Valid(cr[1]) THEN "build"
    ELSE IF cr # None /\ cr[1].expired /\ cr[1].refresh_token THEN "refresh"
    ELSE IF ~secrets THEN "exit"
    ELSE "consent"

\* Line 84: a rejected refresh raises out of get_service; nothing on that
\* path touches the credential file.
CredFileDeletedOnRefreshError(file) == NoFile
CredFileOnRefreshError(file) == file

AuInit ==
    /\ credFile \in {NoFile, Malformed} \cup {Some(c) : c \in Credentials}
    /\ credFile0 = credFile
    /\ secretsExist \in BOOLEAN
    /\ depsOk \in BOOLEAN
    /\ creds = None
    /\ auRefreshCalls = 0
    /\ auConsentRuns = 0
    /\ auFileWrites = 0
    /\ auPath = "none"
    /\ auStderr = <<>>
    /\ auExit = 0
    /\ auPc = "check_deps"

AuIdle ==
    /\ credFile = NoFile
    /\ credFile0 = NoFile
    /\ secretsExist = FALSE
    /\ depsOk = FALSE
    /\ creds = None
    /\ auRefreshCalls = 0
    /\ auConsentRuns = 0
    /\ auFileWrites = 0
    /\ auPath = "none"
    /\ auStderr = <<>>
    /\ auExit = 0
    /\ auPc = "idle"

\* Lines 54-61 and 70: _check_deps.
AuCheckDeps ==
    /\ auPc = "check_deps"
    /\ IF depsOk
       THEN /\ auPc' = "load"
            /\ UNCHANGED <<auStderr, auExit>>
       ELSE /\ auStderr' = Append(auStderr, "Missing dependencies")
            /\ auExit' = 1
            /\ auPc' = "exited"
    /\ UNCHANGED <<credFile, credFile0, secretsExist, depsOk, creds, auRefreshCalls,
                   auConsentRuns, auFileWrites, auPath, pgVars, fdVars, upVars, dlVars, buVars>>

\* Lines 76-79: load the cached credential when the file exists; a file that
\* is no authorized-user document makes from_authorized_user_file raise.
AuLoad ==
    /\ auPc = "load"
    /\ IF credFile = Malformed
       THEN /\ auPc' = "raised"
            /\ auExit' = 1
            /\ auStderr' = Append(auStderr, "Traceback")
            /\ UNCHANGED creds
       ELSE /\ creds' = credFile
            /\ auPc' = "decide"
            /\ UNCHANGED <<auStderr, auExit>>
    /\ UNCHANGED <<credFile, credFile0, secretsExist, depsOk, auRefreshCalls,
                   auConsentRuns, auFileWrites, auPath, pgVars, fdVars, upVars, dlVars, buVars>>

\* Lines 81-82 and 86-96: choose the branch; without a usable credential and
\* without client secrets, print the setup instructions and exit with 1.
AuDecide ==
    /\ auPc = "decide"
    /\ LET b == Branch(creds, secretsExist)
       IN  IF b = "exit"
           THEN /\ auStderr' = Append(auStderr, "No OAuth credentials found")
                /\ auExit' = 1
                /\ auPc' = "exited"
           ELSE /\ auPc' = b
                /\ UNCHANGED <<auStderr, auExit>>
    /\ UNCHANGED <<credFile, credFile0, secretsExist, depsOk, creds, auRefreshCalls,
                   auConsentRuns, auFileWrites, auPath, pgVars, fdVars, upVars, dlVars, buVars>>

\* Lines 83-84: one refresh call to the authorization server.  It answers a
\* new access token, or rejects the refresh token and refresh() raises; main
\* (lines 897-912) re-raises what is no HttpError, and the interpreter prints
\* the traceback on the error stream and exits with code 1.
AuRefresh ==
    /\ auPc = "refresh"
    /\ auRefreshCalls' = auRefreshCalls + 1
    /\ \/ /\ creds' = Some([creds[1] EXCEPT !.token = RefreshedToken, !.expired = FALSE])
          /\ auPath' = "refreshed"
          /\ auStderr' = Append(auStderr, "Refreshing credentials...")
          /\ auPc' = "save"
          /\ UNCHANGED <<credFile, auExit>>
       \/ /\ credFile' = CredFileOnRefreshError(credFile)
          /\ auStderr' = auStderr \o <<"Refreshing credentials...", "Traceback">>
          /\ auExit' = 1
          /\ auPc' = "raised"
          /\ UNCHANGED <<creds, auPath>>
    /\ UNCHANGED <<credFile0, secretsExist, depsOk, auConsentRuns, auFileWrites,
                   pgVars, fdVars, upVars, dlVars, buVars>>

\* Lines 98-103: the interactive consent flow.  It answers a new credential
\* (with or without a refresh token), or fails and run_local_server raises.
AuConsent ==
    /\ auPc = "consent"
    /\ auConsentRuns' = auConsentRuns + 1
    /\ \/ /\ \E rt \in BOOLEAN :
                creds' = Some([token |-> ConsentToken, expired |-> FALSE,
                               refresh_token |-> rt])
          /\ auPath' = "consented"
          /\ auStderr' = auStderr \o <<"Opening browser", "Authorisation successful.">>
          /\ auPc' = "save"
          /\ UNCHANGED auExit
       \/ /\ auStderr' = auStderr \o <<"Opening browser", "Traceback">>
          /\ auExit' = 1
          /\ auPc' = "raised"
          /\ UNCHANGED <<creds, auPath>>
    /\ UNCHANGED <<credFile, credFile0, secretsExist, depsOk, auRefreshCalls, auFileWrites,
                   pgVars, fdVars, upVars, dlVars, buVars>>

\* Lines 105-106: write the credential to the file.
AuSave ==
    /\ auPc = "save"
    /\ credFile' = creds
    /\ auFileWrites' = auFileWrites + 1
    /\ auPc' = "build"
    /\ UNCHANGED <<credFile0, secretsExist, depsOk, creds, auRefreshCalls, auConsentRuns,
                   auPath, auStderr, auExit, pgVars, fdVars, upVars, dlVars, buVars>>

\* Line 108: build and return the client.
AuBuild ==
    /\ auPc = "build"
    /\ auPc' = "done"
    /\ UNCHANGED <<credFile, credFile0, secretsExist, depsOk, creds, auRefreshCalls,
                   auConsentRuns, auFileWrites, auPath, auStderr, auExit,
                   pgVars, fdVars, upVars, dlVars, buVars>>

(***************************************************************************)
(* cmd_videos_delete, cmd_playlists_delete                                 *)
(***************************************************************************)
MaxInputLen == 3

\* input() at end of file: EOFError.
Eof == <<>>

\* The characters a typed line is made of.
InputChars == {"y", "Y", "n", " ", "\t"}
InputLines == UNION {[1..n -> InputChars] : n \in 0..MaxInputLen}

\* str.lower(), character by character.
LowerChar(c) == IF c = "Y" THEN "y" ELSE IF c = "N" THEN "n" ELSE c
Lower(s) == [k \in 1..Len(s) |-> LowerChar(s[k])]

\* Lines 402 and 520: confirm.strip().lower() != "y" is false.
AffirmedUnlessNo(line) == Lower(Strip(line)) # <<"n">>
Affirmed(line) == Lower(Strip(line)) = <<"y">>

\* The id the command names.
TargetId == "target1"

DlInit ==
    /\ dlKind \in {"videos", "playlists"}
    /\ dlYes \in BOOLEAN
    /\ dlStdin \in {Eof} \cup {Some(l) : l \in InputLines}
    /\ dlDeletes = <<>>
    /\ dlStdout = <<>>
    /\ dlStderr = <<>>
    /\ dlExit = 0
    /\ dlPc = "confirm"

DlIdle ==
    /\ dlKind = "videos"
    /\ dlYes = FALSE
    /\ dlStdin = Eof
    /\ dlDeletes = <<>>
    /\ dlStdout = <<>>
    /\ dlStderr = <<>>
    /\ dlExit = 0
    /\ dlPc = "idle"

\* Lines 400-404 and 518-522: without --yes, prompt and read a line; unless
\* it is affirmative print "Aborted." and return.  At end of file input()
\* raises EOFError, which main re-raises: traceback, exit code 1.
DlConfirm ==
    /\ dlPc = "confirm"
    /\ IF dlYes
       THEN /\ dlPc' = "delete"
            /\ UNCHANGED <<dlStdout, dlStderr, dlExit>>
       ELSE IF dlStdin = Eof
       THEN /\ dlStdout' = Append(dlStdout, "[y/N] ")
            /\ dlStderr' = Append(dlStderr, "Traceback")
            /\ dlExit' = 1
            /\ dlPc' = "raised"
       ELSE IF Affirmed(dlStdin[1])
       THEN /\ dlStdout' = Append(dlStdout, "[y/N] ")
            /\ dlPc' = "delete"
            /\ UNCHANGED <<dlStderr, dlExit>>
       ELSE /\ dlStdout' = dlStdout \o <<"[y/N] ", "Aborted.">>
            /\ dlPc' = "returned"
            /\ UNCHANGED <<dlStderr, dlExit>>
    /\ UNCHANGED <<dlKind, dlYes, dlStdin, dlDeletes, pgVars, fdVars, upVars, auVars, buVars>>

\* Lines 405-406 and 523-524: the delete call, then the report; an API error
\* is raised to main, which prints it on the error stream and exits with 1.
DlDelete ==
    /\ dlPc = "delete"
    /\ dlDeletes' = Append(dlDeletes, [resource |-> dlKind, id |-> TargetId])
    /\ \/ /\ dlStdout' = Append(dlStdout, "Deleted")
          /\ dlPc' = "done"
          /\ UNCHANGED <<dlStderr, dlExit>>
       \/ /\ dlStderr' = Append(dlStderr, "YouTube API error")
          /\ dlExit' = 1
          /\ dlPc' = "exited"
          /\ UNCHANGED dlStdout
    /\ UNCHANGED <<dlKind, dlYes, dlStdin, pgVars, fdVars, upVars, auVars, buVars>>

(***************************************************************************)
(* cmd_bulk_update                                                         *)
(***************************************************************************)
MaxRows == 2

\* The header rows the model draws from: without an id column; with it
\* alone; with it and some of the optional columns.
Headers ==
    {{"title"}, {"id"}, {"id", "title"}, {"id", "title", "description"},
     {"id", "title", "tags"}, {"id", "category_id", "status"}}

\* The cells a column may hold (strings are sequences of characters; "" is <<>>).
Cells(col) ==
    CASE col = "id" -> {<<"a">>, <<" ", "a">>, <<"b">>, <<"x">>, <<>>}
      [] col = "title" -> {<<>>, <<" ", "N", " ">>}
      [] col = "description" -> {<<>>, <<"D", " ">>}
      [] col = "tags" -> {<<>>, <<"t", "|", " ", "u", "|">>}
      [] col = "category_id" -> {<<>>, <<"10">>}
      [] col = "status" -> {<<>>, <<"unlisted">>}
AllCells == UNION {Cells(col) : col \in UNION Headers}

\* csv.DictReader: the rows of a file with the given header, each a mapping
\* from column name to cell.
RowsFor(header) == {r \in [header -> AllCells] : \A col \in header : r[col] \in Cells(col)}

\* The ids of the channel's videos.
KnownIds == {<<"a">>, <<"b">>}

\* The record videos.list(part="snippet,status") answers for an id.
BuRemoteRecord(id) ==
    [id |-> id,
     snippet |-> [title |-> <<"O", "l", "d">>, description |-> <<"o", "d">>,
                  tags |-> <<<<"o">>>>, categoryId |-> <<"22">>, channelId |-> <<"UC1">>],
     status |-> [privacyStatus |-> <<"public">>, license |-> <<"youtube">>]]

\* _fetch_video_details line 151: the answer to one chunk call.
BuDetailResponse(batch, remote) == {BuRemoteRecord(id) : id \in Range(batch) \cap remote}

\* row.get(col, "")
Cell(row, col) == IF col \in DOMAIN row THEN row[col] ELSE <<>>

\* Line 677: [r["id"].strip() for r in rows if r.get("id", "").strip()]
RECURSIVE IdsOf(_)
IdsOf(rs) ==
    IF rs = <<>> THEN <<>>
    ELSE (IF Strip(Cell(Head(rs), "id")) # <<>> THEN <<Strip(Head(rs)["id"])>> ELSE <<>>)
         \o IdsOf(Tail(rs))

\* Line 686: not vid_id or vid_id not in current
BuNotFound(vid, cur) == vid = <<>> \/ vid \notin DOMAIN cur

\* Line 684: `for row in rows` takes the rows in file order; after `seen`
\* rows the next is row seen + 1.
BuRowAtReversed(seen, n) == n - seen
BuRowAt(seen, n) == seen + 1

\* Lines 689 and 714: `continue` goes on with the next row; of n rows,
\* seen + 1 are consumed once the row is skipped.
BuBreakOnSkip(seen, n) == n
BuAfterSkip(seen, n) == seen + 1

\* Lines 696-707: the snippet after the row's cells are laid over it.
BuOverlaySnippetClearing(sn, row) ==
    [sn EXCEPT
       !.title = Strip(Cell(row, "title")),
       !.description = IF "description" \in DOMAIN row THEN row["description"] ELSE @,
       !.tags = ParseTags(Cell(row, "tags"), "|"),
       !.categoryId = Strip(Cell(row, "category_id"))]
BuOverlaySnippet(sn, row) ==
    [sn EXCEPT
       !.title = IF Strip(Cell(row, "title")) # <<>> THEN Strip(row["title"]) ELSE @,
       !.description = IF "description" \in DOMAIN row THEN row["description"] ELSE @,
       !.tags = IF Strip(Cell(row, "tags")) # <<>> THEN ParseTags(row["tags"], "|") ELSE @,
       !.categoryId = IF Strip(Cell(row, "category_id")) # <<>>
                      THEN Strip(row["category_id"]) ELSE @]

\* Lines 708-710.
BuOverlayStatus(st, row) ==
    [st EXCEPT
       !.privacyStatus = IF Strip(Cell(row, "status")) # <<>>
                         THEN Strip(row["status"]) ELSE @]

\* Lines 694-710: `changed` after the five tests.
BuChanged(row) ==
    \/ Strip(Cell(row, "title")) # <<>>
    \/ "description" \in DOMAIN row
    \/ Strip(Cell(row, "tags")) # <<>>
    \/ Strip(Cell(row, "category_id")) # <<>>
    \/ Strip(Cell(row, "status")) # <<>>

\* Lines 673-675: the id-column test, made on the first data row.
BuHasIdColumn(rs) == "id" \in DOMAIN rs[1]

BuInit ==
    /\ \/ /\ buFileExists = TRUE
          /\ buHeader \in Headers
          /\ \E n \in 0..MaxRows : rows \in [1..n -> RowsFor(buHeader)]
       \/ /\ buFileExists = FALSE
          /\ buHeader = {}
          /\ rows = <<>>
    /\ buRemote = KnownIds
    /\ buIds = <<>>
    /\ buI = 0
    /\ current = <<>>
    /\ buFetched = <<>>
    /\ buRow = 0
    /\ updated = 0
    /\ skipped = 0
    /\ buCalls = <<>>
    /\ buWritesOk = 0
    /\ buStdout = <<>>
    /\ buStderr = <<>>
    /\ buExit = 0
    /\ buPc = "open"

\* Lines 660-678: read the file; a missing file and a first row without an
\* id column exit with code 1, a file without data rows returns.
BuOpen ==
    /\ buPc = "open"
    /\ IF ~buFileExists
       THEN /\ buStderr' = Append(buStderr, <<"File not found">>)
            /\ buExit' = 1
            /\ buPc' = "exited"
            /\ UNCHANGED <<buStdout, buIds>>
       ELSE IF rows = <<>>
       THEN /\ buStdout' = Append(buStdout, <<"CSV is empty.">>)
            /\ buPc' = "returned"
            /\ UNCHANGED <<buStderr, buExit, buIds>>
       ELSE IF ~BuHasIdColumn(rows)
       THEN /\ buStderr' = Append(buStderr, <<"CSV must have an 'id' column.">>)
            /\ buExit' = 1
            /\ buPc' = "exited"
            /\ UNCHANGED <<buStdout, buIds>>
       ELSE /\ buIds' = IdsOf(rows)
            /\ buStdout' = Append(buStdout, <<"Fetching current metadata">>)
            /\ buPc' = "fetch"
            /\ UNCHANGED <<buStderr, buExit>>
    /\ UNCHANGED <<buFileExists, buHeader, rows, buRemote, buI, current, buFetched, buRow,
                   updated, skipped, buCalls, buWritesOk,
                   pgVars, fdVars, upVars, auVars, dlVars>>

\* Line 680, lines 149-153: one chunk call of _fetch_video_details; an API
\* error is raised to main, which prints it and exits with code 1.
BuFetchChunk ==
    /\ buPc = "fetch"
    /\ FdMore(buIds, buI, current)
    /\ LET batch == Batch(buIds, buI)
       IN  /\ buCalls' = Append(buCalls, [op |-> "videos.list", ids |-> batch])
           /\ \/ /\ current' = Merge(current, BuDetailResponse(batch, buRemote))
                 /\ buI' = buI + ChunkSize
                 /\ UNCHANGED <<buStderr, buExit, buPc>>
              \/ /\ buStderr' = Append(buStderr, <<"YouTube API error">>)
                 /\ buExit' = 1
                 /\ buPc' = "exited"
                 /\ UNCHANGED <<current, buI>>
    /\ UNCHANGED <<buFileExists, buHeader, rows, buRemote, buIds, buFetched, buRow,
                   updated, skipped, buWritesOk, buStdout,
                   pgVars, fdVars, upVars, auVars, dlVars>>

\* Line 154 and lines 680-683: _fetch_video_details returns; the counters start.
BuFetchDone ==
    /\ buPc = "fetch"
    /\ ~FdMore(buIds, buI, current)
    /\ buFetched' = current
    /\ updated' = 0
    /\ skipped' = 0
    /\ buPc' = "rows"
    /\ UNCHANGED <<buFileExists, buHeader, rows, buRemote, buIds, buI, current, buRow,
                   buCalls, buWritesOk, buStdout, buStderr, buExit,
                   pgVars, fdVars, upVars, auVars, dlVars>>

\* Lines 684-723: one iteration of the row loop.  The overlay assigns into
\* the record held in `current`; a row that changes nothing is skipped; the
\* videos.update call either succeeds or raises to main (exit code 1).
BuRowStep ==
    /\ buPc = "rows"
    /\ buRow < Len(rows)
    /\ LET k == BuRowAt(buRow, Len(rows))
           row == rows[k]
           vid == Strip(Cell(row, "id"))
       IN  IF BuNotFound(vid, current)
           THEN /\ buStdout' = Append(buStdout, <<"Skip (not found)">>)
                /\ skipped' = skipped + 1
                /\ buRow' = BuAfterSkip(buRow, Len(rows))
                /\ UNCHANGED <<current, updated, buCalls, buWritesOk, buStderr, buExit, buPc>>
           ELSE LET item == [current[vid] EXCEPT
                               !.snippet = BuOverlaySnippet(@, row),
                               !.status = BuOverlayStatus(@, row)]
                IN  /\ current' = [current EXCEPT ![vid] = item]
                    /\ IF ~BuChanged(row)
                       THEN /\ skipped' = skipped + 1
                            /\ buRow' = BuAfterSkip(buRow, Len(rows))
                            /\ UNCHANGED <<updated, buCalls, buWritesOk, buStdout,
                                           buStderr, buExit, buPc>>
                       ELSE /\ buCalls' = Append(buCalls,
                                  [op |-> "videos.update", row |-> k,
                                   body |-> [id |-> vid, snippet |-> item.snippet,
                                             status |-> item.status]])
                            /\ \/ /\ buStdout' = Append(buStdout, <<"Updated">>)
                                  /\ updated' = updated + 1
                                  /\ buWritesOk' = buWritesOk + 1
                                  /\ buRow' = buRow + 1
                                  /\ UNCHANGED <<buStderr, buExit, buPc>>
                               \/ /\ buStderr' = Append(buStderr, <<"YouTube API error">>)
                                  /\ buExit' = 1
                                  /\ buPc' = "exited"
                                  /\ UNCHANGED <<updated, buWritesOk, buStdout, buRow>>
                            /\ UNCHANGED skipped
    /\ UNCHANGED <<buFileExists, buHeader, rows, buRemote, buIds, buI, buFetched,
                   pgVars, fdVars, upVars, auVars, dlVars>>

\* Line 725: the report.
BuReport ==
    /\ buPc = "rows"
    /\ buRow >= Len(rows)
    /\ buStdout' = Append(buStdout, <<"Done.", updated, skipped>>)
    /\ buPc' = "done"
    /\ UNCHANGED <<buFileExists, buHeader, rows, buRemote, buIds, buI, current, buFetched,
                   buRow, updated, skipped, buCalls, buWritesOk, buStderr, buExit,
                   pgVars, fdVars, upVars, auVars, dlVars>>

BuIdle ==
    /\ buFileExists = FALSE
    /\ buHeader = {}
    /\ rows = <<>>
    /\ buRemote = {}
    /\ buIds = <<>>
    /\ buI = 0
    /\ current = <<>>
    /\ buFetched = <<>>
    /\ buRow = 0
    /\ updated = 0
    /\ skipped = 0
    /\ buCalls = <<>>
    /\ buWritesOk = 0
    /\ buStdout = <<>>
    /\ buStderr = <<>>
    /\ buExit = 0
    /\ buPc = "idle"

(***************************************************************************)
(* Specifications                                                          *)
(***************************************************************************)
InitPaginate == PgInit /\ FdIdle /\ UpIdle /\ AuIdle /\ DlIdle /\ BuIdle
NextPaginate == PgIterate \/ PgReturn
SpecPaginate == InitPaginate /\ [][NextPaginate]_vars
\* The call runs on its own thread of control until it returns: a loop
\* iteration or the return that can be taken is taken.
FairPaginate == SpecPaginate /\ WF_vars(NextPaginate)

InitFetch == FdInit /\ PgIdle /\ UpIdle /\ AuIdle /\ DlIdle /\ BuIdle
NextFetch == FdIterate \/ FdReturn
SpecFetch == InitFetch /\ [][NextFetch]_vars

InitUpdate == UpInit /\ PgIdle /\ FdIdle /\ AuIdle /\ DlIdle /\ BuIdle
NextUpdate == UpFetch \/ UpOverlay \/ UpWrite
SpecUpdate == InitUpdate /\ [][NextUpdate]_vars

InitAuth == AuInit /\ PgIdle /\ FdIdle /\ UpIdle /\ DlIdle /\ BuIdle
NextAuth == AuCheckDeps \/ AuLoad \/ AuDecide \/ AuRefresh \/ AuConsent \/ AuSave \/ AuBuild
SpecAuth == InitAuth /\ [][NextAuth]_vars

InitDelete == DlInit /\ PgIdle /\ FdIdle /\ UpIdle /\ AuIdle /\ BuIdle
NextDelete == DlConfirm \/ DlDelete
SpecDelete == InitDelete /\ [][NextDelete]_vars

InitBulk == BuInit /\ PgIdle /\ FdIdle /\ UpIdle /\ AuIdle /\ DlIdle
NextBulk == BuOpen \/ BuFetchChunk \/ BuFetchDone \/ BuRowStep \/ BuReport
SpecBulk == InitBulk /\ [][NextBulk]_vars

(***************************************************************************)
(* Claims about _paginate                                                  *)
(***************************************************************************)
\* The concatenation of a sequence of sequences, in order.
RECURSIVE Flatten(_)
Flatten(ss) == IF ss = <<>> THEN <<>> ELSE Head(ss) \o Flatten(Tail(ss))

\* The number of items over all pages (S).
RECURSIVE TotalSize(_)
TotalSize(ss) == IF ss = <<>> THEN 0 ELSE Len(Head(ss)) + TotalSize(Tail(ss))

\* C1: with no limit, _paginate returns exactly the S items of the N pages:
\* the pages' items concatenated in page order and, within a page, in
\* response order.
C1_NoLimitReturnsAll ==
    (pgPc = "done" /\ ~pgLimitGiven) =>
        /\ Len(pgResult) = TotalSize(pgPages)
        /\ pgResult = Flatten(pgPages)
        /\ Len(pgCalls) = Len(pgPages)

C1_Witness ==
    /\ pgPc = "done"
    /\ ~pgLimitGiven
    /\ Len(pgPages) = 3
    /\ \A j \in 1..3 : Len(pgPages[j]) = 2
    /\ pgResult = <<Item(1, 1), Item(1, 2), Item(2, 1), Item(2, 2), Item(3, 1), Item(3, 2)>>

\* C2: with a supplied limit k < S, _paginate returns exactly k items, the
\* first k items of the unlimited result; and with any supplied limit it
\* returns at most limit items.
C2_LimitReturnsPrefix ==
    (pgPc = "done" /\ pgLimitGiven) =>
        /\ Len(pgResult) <= pgLimit
        /\ pgLimit < TotalSize(pgPages) =>
              pgResult = SubSeq(Flatten(pgPages), 1, pgLimit)

\* What the code does give for a supplied limit: the claim's result when the
\* limit is at least 1, and the whole first page when the limit is 0.
C2_PositiveLimitReturnsPrefix ==
    (pgPc = "done" /\ pgLimitGiven) =>
        IF pgLimit >= 1
        THEN pgResult = SubSeq(Flatten(pgPages), 1, Min(pgLimit, TotalSize(pgPages)))
        ELSE pgResult = pgPages[1]

(***************************************************************************)
(* Claims about _fetch_video_details                                       *)
(***************************************************************************)
\* ceil(n / 50)
Chunks(n) == (n + ChunkSize - 1) \div ChunkSize

\* C3: the id list is cut, in order, into consecutive chunks of at most 50
\* ids, one videos.list call per chunk in chunk order: ceil(n/50) calls, each
\* but possibly the last of exactly 50 ids, the last of 1 to 50, and the calls'
\* id lists concatenated are the id list (nothing omitted, nothing sent twice).
C3_ConsecutiveChunks ==
    /\ \A c \in 1..Len(fdCalls) :
          /\ Len(fdCalls[c]) \in 1..ChunkSize
          /\ c < Len(fdCalls) => Len(fdCalls[c]) = ChunkSize
    /\ Flatten(fdCalls) = SubSeq(video_ids, 1, Min(fdI, Len(video_ids)))
    /\ fdPc = "done" =>
          /\ Len(fdCalls) = Chunks(Len(video_ids))
          /\ Flatten(fdCalls) = video_ids

C3_Witness ==
    /\ fdPc = "done"
    /\ Len(video_ids) = 120
    /\ Len(fdCalls) = 3
    /\ Len(fdCalls[1]) = 50
    /\ Len(fdCalls[2]) = 50
    /\ Len(fdCalls[3]) = 20

\* Every record a response carried so far.
Returned == UNION Range(fdResponses)

\* C4: the mapping holds exactly the records the remote returned over all
\* chunk calls, keyed by id; a requested id no response contains is absent
\* from it, and the absence neither fails the call nor stops the remaining
\* chunk calls.
C4_MappingIsWhatRemoteReturned ==
    /\ DOMAIN details = {r.id : r \in Returned}
    /\ \A id \in DOMAIN details : details[id] \in Returned /\ details[id].id = id
    /\ \A id \in Range(video_ids) :
          (\A r \in Returned : r.id # id) => id \notin DOMAIN details
    /\ fdPc = "done" =>
          /\ Len(fdCalls) = Chunks(Len(video_ids))
          /\ DOMAIN details = Range(video_ids) \ fdDeleted

C4_Witness ==
    /\ fdPc = "done"
    /\ Len(video_ids) = 120
    /\ 1 \in Range(video_ids) /\ 1 \in fdDeleted
    /\ 1 \notin DOMAIN details
    /\ Len(fdCalls) = 3
    /\ {2, 52, 102} \subseteq DOMAIN details

(***************************************************************************)
(* Claims about cmd_videos_update                                          *)
(***************************************************************************)
FlagNames == {"title", "description", "tags", "category", "privacy", "publish_at"}
NoFlagSet == \A f \in FlagNames : upArgs[f] = None
UpEnded == upPc \in {"done", "exited"}

\* C5: with none of the six field flags set, cmd_videos_update ends with a
\* non-zero exit code and issues no videos.update call; with at least one
\* flag set and the video found, it issues exactly one videos.update call.
C5_NoOpUpdateIssuesNoWrite ==
    /\ NoFlagSet =>
          /\ upWrites = <<>>
          /\ upPc # "done"
          /\ upPc = "exited" => upExit # 0
    /\ (~NoFlagSet /\ upRemote = "found" /\ UpEnded) => Len(upWrites) = 1
    /\ Len(upWrites) <= 1

C5_Witness ==
    /\ NoFlagSet
    /\ upRemote = "found"
    /\ upPc = "exited"
    /\ upExit = 1
    /\ upStdout = <<"Nothing to update">>
    /\ upWrites = <<>>

\* The fields of the written body that no flag names are the fetched ones.
OtherFieldsVerbatim(b) ==
    /\ b.id = upFetched.id
    /\ b.snippet.channelId = upFetched.snippet.channelId
    /\ b.snippet.defaultLanguage = upFetched.snippet.defaultLanguage
    /\ b.status.license = upFetched.status.license
    /\ b.status.embeddable = upFetched.status.embeddable

\* The snippet fields whose flag is not supplied are the fetched ones.
UnsuppliedSnippetVerbatim(b) ==
    /\ upArgs.title = None => b.snippet.title = upFetched.snippet.title
    /\ upArgs.description = None => b.snippet.description = upFetched.snippet.description
    /\ upArgs.tags = None => b.snippet.tags = upFetched.snippet.tags
    /\ upArgs.category = None => b.snippet.categoryId = upFetched.snippet.categoryId

\* C6 as stated: in the write, every snippet/status field whose flag was not
\* supplied has exactly the value fetched before the update.
C6_UnsuppliedFieldsVerbatim ==
    \A k \in 1..Len(upWrites) :
        LET b == upWrites[k]
        IN  /\ OtherFieldsVerbatim(b)
            /\ UnsuppliedSnippetVerbatim(b)
            /\ upArgs.privacy = None =>
                  b.status.privacyStatus = upFetched.status.privacyStatus
            /\ upArgs.publish_at = None =>
                  b.status.publishAt = upFetched.status.publishAt

\* C6 as amended: the same, except that status.privacyStatus is "private"
\* whenever --publish-at is supplied, and is the fetched value only when
\* neither --privacy nor --publish-at is supplied.
C6_UnsuppliedFieldsVerbatimUnlessScheduled ==
    \A k \in 1..Len(upWrites) :
        LET b == upWrites[k]
        IN  /\ OtherFieldsVerbatim(b)
            /\ UnsuppliedSnippetVerbatim(b)
            /\ (upArgs.privacy = None /\ upArgs.publish_at = None) =>
                  b.status.privacyStatus = upFetched.status.privacyStatus
            /\ upArgs.publish_at # None => b.status.privacyStatus = "private"
            /\ upArgs.publish_at = None =>
                  b.status.publishAt = upFetched.status.publishAt

\* Only --title is supplied, and the write carries the new title with every
\* other field as fetched.
C6_Witness ==
    /\ Len(upWrites) = 1
    /\ upArgs.title = Some("New title")
    /\ \A f \in FlagNames \ {"title"} : upArgs[f] = None
    /\ upWrites[1].snippet = [upFetched.snippet EXCEPT !.title = "New title"]
    /\ upWrites[1].status = upFetched.status
    /\ upFetched.status.privacyStatus = "public"

(***************************************************************************)
(* Claims about get_service                                                *)
(***************************************************************************)
\* The file held a credential when get_service was entered.
HadCredential == credFile0 # NoFile /\ credFile0 # Malformed
AuFailed == auPc \in {"exited", "raised"}

\* C7: with a cached credential whose access token is not expired,
\* get_service makes no call to the authorization server (no refresh, no
\* consent flow) and does not write the credential file.
C7_ValidCacheNoNetwork ==
    (HadCredential /\ credFile0[1].token # NoToken /\ ~credFile0[1].expired) =>
        /\ auRefreshCalls = 0
        /\ auConsentRuns = 0
        /\ auFileWrites = 0
        /\ credFile = credFile0
        /\ auPc \notin {"refresh", "consent", "save", "raised"}

C7_Witness ==
    /\ auPc = "done"
    /\ credFile0 = Some([token |-> CachedToken, expired |-> FALSE, refresh_token |-> TRUE])
    /\ creds = credFile0
    /\ auRefreshCalls = 0 /\ auConsentRuns = 0 /\ auFileWrites = 0

\* C8: with a cached credential that is expired and has a refresh token,
\* get_service makes exactly one refresh call, never starts the consent
\* flow, and after a successful refresh has overwritten the credential file
\* with the refreshed credential before it returns the client.
C8_ExpiredCacheRefreshesOnce ==
    (HadCredential /\ credFile0[1].expired /\ credFile0[1].refresh_token) =>
        /\ auConsentRuns = 0
        /\ auPc # "consent"
        /\ auRefreshCalls = (IF auPc \in {"save", "build", "done", "raised"} THEN 1 ELSE 0)
        /\ auPc \in {"build", "done"} =>
              /\ auPath = "refreshed"
              /\ auFileWrites = 1
              /\ credFile = creds
              /\ credFile[1] = [credFile0[1] EXCEPT !.token = RefreshedToken,
                                                    !.expired = FALSE]

C8_Witness ==
    /\ auPc = "done"
    /\ credFile0 = Some([token |-> CachedToken, expired |-> TRUE, refresh_token |-> TRUE])
    /\ credFile = Some([token |-> RefreshedToken, expired |-> FALSE, refresh_token |-> TRUE])
    /\ auRefreshCalls = 1
    /\ auConsentRuns = 0

\* C9: with no credential file and no client-secret file, get_service ends
\* the process with a non-zero exit code without starting the consent flow,
\* without a network call and without creating the credential file.
C9_NoSecretsFailsQuietly ==
    (credFile0 = NoFile /\ ~secretsExist) =>
        /\ auConsentRuns = 0
        /\ auRefreshCalls = 0
        /\ auFileWrites = 0
        /\ credFile = NoFile
        /\ auPc \in {"check_deps", "load", "decide", "exited"}
        /\ auPc = "exited" => auExit # 0

C9_Witness ==
    /\ credFile0 = NoFile
    /\ ~secretsExist
    /\ depsOk
    /\ auPc = "exited"
    /\ auExit = 1
    /\ auStderr = <<"No OAuth credentials found">>
    /\ credFile = NoFile

\* C10: on every path of get_service the credential file is never deleted;
\* its content changes only where a refresh succeeded or the consent flow
\* completed, to the credential so obtained; and on every failing path it is
\* left exactly as it was.
C10_FileChangesOnlyOnSuccess ==
    /\ credFile0 # NoFile => credFile # NoFile
    /\ credFile # credFile0 =>
          /\ auPath \in {"refreshed", "consented"}
          /\ auPc \in {"build", "done"}
          /\ credFile = creds
    /\ auFileWrites > 0 => auPath \in {"refreshed", "consented"}
    /\ AuFailed => (credFile = credFile0 /\ auFileWrites = 0)

\* A rejected refresh: the process fails and the file is as it was.
C10_Witness ==
    /\ auPc = "raised"
    /\ auRefreshCalls = 1
    /\ HadCredential
    /\ credFile = credFile0

(***************************************************************************)
(* Claims about the calls of _paginate                                     *)
(***************************************************************************)
\* The number of items of the first k pages.
ItemsUpTo(k) == TotalSize(SubSeq(pgPages, 1, k))

\* The calls issued so far are chained: the first carries no cursor, each
\* later one the cursor of the response just before it; and none follows a
\* response without a cursor or an accumulated count at or over the limit.
CallsChained ==
    /\ pgCalls # <<>> => pgCalls[1] = NoCursor
    /\ \A k \in 1..(Len(pgCalls) - 1) :
          LET resp == ListResponse(pgPages, pgCalls[k])
          IN  /\ resp.nextPageToken # NoCursor
              /\ pgCalls[k + 1] = resp.nextPageToken
              /\ ~(pgLimitGiven /\ ItemsUpTo(k) >= pgLimit)
    /\ pgPc \in {"return", "done"} =>
          LET last == ListResponse(pgPages, pgCalls[Len(pgCalls)])
          IN  \/ last.nextPageToken = NoCursor
              \/ pgLimitGiven /\ Len(collected) >= pgLimit
    /\ Len(collected) = ItemsUpTo(Len(pgCalls))

\* C17: _paginate issues its list calls one after another, the first without
\* a cursor and each later one with the cursor of the preceding response,
\* issues none after a response without a cursor or after the accumulated
\* count has reached a supplied limit, and returns once the remote has
\* answered a response without a cursor.
C17_CallsChainedAndTerminates ==
    /\ []CallsChained
    /\ <>(pgPc = "done")

\* Three calls were needed: the limit was reached only with the third page.
C17_Witness ==
    /\ pgPc = "done"
    /\ pgLimitGiven
    /\ pgLimit = 4
    /\ pgCalls = <<NoCursor, 2, 3>>
    /\ ItemsUpTo(2) = 3
    /\ Len(pgResult) = 4

(***************************************************************************)
(* Claims about the branch get_service takes                               *)
(***************************************************************************)
\* C16: whenever the cached credential is not usable as it is (not valid)
\* and carries a refresh token, get_service attempts the silent refresh and
\* does not start the consent flow; the consent flow is started only when
\* there is no cached credential or it has no refresh token.
C16_RefreshBeforeConsent ==
    /\ (HadCredential /\ ~Valid(credFile0[1]) /\ credFile0[1].refresh_token) =>
          /\ auPc # "consent"
          /\ auConsentRuns = 0
          /\ auPc \in {"save", "build", "done", "raised"} => auRefreshCalls = 1
    /\ (auPc = "consent" \/ auConsentRuns > 0) =>
          \/ credFile0 = NoFile
          \/ HadCredential /\ ~credFile0[1].refresh_token

\* What the code does: the refresh is attempted only for a credential that
\* is expired; one that is not valid for want of an access token, yet not
\* expired, goes to the consent flow (or the missing-secrets exit) even with
\* a refresh token.
C16_RefreshOnlyWhenExpired ==
    /\ (HadCredential /\ credFile0[1].expired /\ credFile0[1].refresh_token) =>
          /\ auPc # "consent"
          /\ auConsentRuns = 0
    /\ (auPc = "consent" \/ auConsentRuns > 0) =>
          \/ credFile0 = NoFile
          \/ HadCredential /\ ~credFile0[1].refresh_token
          \/ HadCredential /\ credFile0[1].token = NoToken /\ ~credFile0[1].expired

(***************************************************************************)
(* Claims about error outcomes                                             *)
(***************************************************************************)
\* C14: every error outcome of a command ends the process with a message
\* printed on the error stream and a non-zero exit code; stated here for the
\* error outcomes of videos update (video not found, remote API error,
\* no-op update).
C14_ErrorsOnErrorStream ==
    upPc = "exited" => (upExit # 0 /\ upStderr # <<>>)

\* What the code does: every error outcome exits with a non-zero code, and
\* all but the no-op update print on the error stream; the no-op update
\* prints its message on standard output.
C14_ErrorsExitNonZero ==
    /\ upPc = "exited" =>
          /\ upExit # 0
          /\ IF upRemote = "found" /\ NoFlagSet
             THEN upStderr = <<>> /\ upStdout = <<"Nothing to update">>
             ELSE upStderr # <<>>
    /\ upPc = "done" => (upExit = 0 /\ upStderr = <<>>)

\* The same for the error outcomes of get_service (missing dependencies,
\* malformed credential file, rejected refresh, failed consent, missing
\* client secrets).
C14_AuthErrorsOnErrorStream ==
    AuFailed => (auExit # 0 /\ auStderr # <<>>)

(***************************************************************************)
(* Claims about cmd_videos_delete and cmd_playlists_delete                 *)
(***************************************************************************)
\* A line was read and, trimmed and lower-cased, it is "y".
TypedYes == dlStdin # Eof /\ Lower(Strip(dlStdin[1])) = <<"y">>
TypedOther == dlStdin # Eof /\ Lower(Strip(dlStdin[1])) # <<"y">>

\* C11: the delete call is issued only if --yes is set or the line read from
\* standard input, trimmed and lower-cased, equals "y"; with any other line
\* and no --yes the handler issues no delete call and returns.
C11_DeleteOnlyWhenConfirmed ==
    /\ dlDeletes # <<>> => (dlYes \/ TypedYes)
    /\ Len(dlDeletes) <= 1
    /\ (dlYes \/ TypedYes) =>
          (dlPc \in {"done", "exited"} =>
              dlDeletes = <<[resource |-> dlKind, id |-> TargetId]>>)
    /\ (~dlYes /\ TypedOther) =>
          /\ dlDeletes = <<>>
          /\ dlPc \in {"confirm", "returned"}
          /\ dlPc = "returned" => (dlExit = 0 /\ dlStdout = <<"[y/N] ", "Aborted.">>)

\* " Y" followed by a tab is typed without --yes, and the playlist is deleted.
C11_Witness ==
    /\ dlKind = "playlists"
    /\ ~dlYes
    /\ dlStdin = Some(<<" ", "Y", "\t">>)
    /\ dlPc = "done"
    /\ Len(dlDeletes) = 1

(***************************************************************************)
(* cmd_bulk_update: rows whose id is unknown                               *)
(***************************************************************************)

\* The stripped id of row k, the rows the run wrote, and the rows whose id
\* the detail fetch did not answer.
BuRowId(k) == Strip(Cell(rows[k], "id"))
WriteCalls == {j \in 1..Len(buCalls) : buCalls[j].op = "videos.update"}
WriteRows == {buCalls[j].row : j \in WriteCalls}
UnknownRows == {k \in 1..Len(rows) : BuRowId(k) \notin DOMAIN buFetched}
UnchangedRows == {k \in 1..Len(rows) : k \notin UnknownRows /\ ~BuChanged(rows[k])}
ScenarioRows ==
    <<[id |-> <<"a">>, title |-> <<" ", "N", " ">>], [id |-> <<"x">>, title |-> <<>>]>>

\* C12: a row whose id is not in the fetched data never gets a write call;
\* it is counted as skipped and the rows after it are still processed, so a
\* run that reaches the report has written every known row that changes
\* something and has counted every other row as skipped; for the rows
\* [{id a, title N}, {id x}] with x unknown that is one write, for a, and
\* the report "1 updated, 1 skipped".
C12_UnknownIdSkippedNotFatal ==
    /\ WriteRows \cap UnknownRows = {}
    /\ buPc = "done" =>
         /\ WriteRows = (1..Len(rows)) \ (UnknownRows \cup UnchangedRows)
         /\ skipped = Cardinality(UnknownRows) + Cardinality(UnchangedRows)
         /\ buExit = 0
    /\ (buPc = "done" /\ rows = ScenarioRows) =>
         /\ Cardinality(WriteCalls) = 1
         /\ \A j \in WriteCalls : buCalls[j].body.id = <<"a">>
         /\ buStdout[Len(buStdout)] = <<"Done.", 1, 1>>
C12_Witness ==
    /\ buPc = "done"
    /\ rows = ScenarioRows
    /\ updated = 1
    /\ skipped = 1
    /\ WriteRows = {1}
    /\ UnknownRows = {2}

(***************************************************************************)
(* cmd_bulk_update: empty cells                                            *)
(***************************************************************************)

\* The four fields an empty cell leaves alone, read from a video record or
\* from the body of a write.
KeptFields(item) ==
    [title |-> item.snippet.title, tags |-> item.snippet.tags,
     category_id |-> item.snippet.categoryId, status |-> item.status.privacyStatus]
KeptColumns == {"title", "tags", "category_id", "status"}
EmptyCell(k, col) == Strip(Cell(rows[k], col)) = <<>>

\* The description cell of a written row is what the write carries.
DescriptionOverwritten(j) ==
    LET row == rows[buCalls[j].row]
    IN  "description" \in DOMAIN row =>
          buCalls[j].body.snippet.description = row["description"]

\* The writes for the same id issued before call j, and the record call j
\* started from: the body of the latest of them, else the fetched record.
EarlierWrites(j) == {i \in WriteCalls : i < j /\ buCalls[i].body.id = buCalls[j].body.id}
StartedFrom(j) ==
    IF EarlierWrites(j) = {} THEN buFetched[buCalls[j].body.id]
    ELSE buCalls[CHOOSE i \in EarlierWrites(j) : \A h \in EarlierWrites(j) : h <= i].body

BuEnded == buPc \in {"exited", "returned", "done"}
NoIdColumn == buFileExists /\ "id" \notin buHeader

\* C15: a run on a file whose header has no id column ends with a
\* validation error on the error stream and a non-zero exit code, having
\* issued no detail-fetch call and no write call, however many data rows
\* the file has.
C15_NoIdColumnFails ==
    (NoIdColumn /\ BuEnded) =>
        /\ buExit # 0
        /\ buStderr = <<<<"CSV must have an 'id' column.">>>>
        /\ buCalls = <<>>

\* What does hold: no call is issued in any such run, and the run fails as
\* stated when the file has at least one data row.
C15_NoIdColumnNoCalls == NoIdColumn => buCalls = <<>>
C15_NoIdColumnFailsWithRows ==
    (NoIdColumn /\ BuEnded /\ rows # <<>>) =>
        /\ buExit # 0
        /\ buStderr = <<<<"CSV must have an 'id' column.">>>>

(***************************************************************************)
(* cmd_bulk_update: order of the calls and the counters                    *)
(***************************************************************************)

FetchCalls == {j \in 1..Len(buCalls) : buCalls[j].op = "videos.list"}

\* A write that raised ends the run, so it is the last call of a run that
\* exited with a write in its log.
FailedWrites == IF buPc = "exited" /\ WriteCalls # {} THEN 1 ELSE 0
InRowLoop == buPc \in {"rows", "done"} \/ (buPc = "exited" /\ WriteCalls # {})

\* C18: every detail-fetch call precedes every write call and no write is
\* issued while the fetch is under way; the writes follow the order of the
\* rows, at most one per row; throughout the row loop `updated` is the
\* number of writes that succeeded and updated + skipped is the number of
\* rows processed; a run that completes has updated + skipped = number of
\* rows, and that is what it reports.
C18_FetchThenOrderedWritesCounted ==
    /\ \A i \in FetchCalls : \A j \in WriteCalls : i < j
    /\ buPc \in {"open", "fetch"} => WriteCalls = {}
    /\ \A i, j \in WriteCalls : i < j => buCalls[i].row < buCalls[j].row
    /\ InRowLoop =>
         /\ updated = Cardinality(WriteCalls) - FailedWrites
         /\ updated = buWritesOk
         /\ updated + skipped = buRow
         /\ buRow <= Len(rows)
    /\ buPc = "done" =>
         /\ updated + skipped = Len(rows)
         /\ buStdout[Len(buStdout)] = <<"Done.", updated, skipped>>
C18_Witness ==
    /\ buPc = "done"
    /\ FetchCalls # {}
    /\ Cardinality(WriteCalls) = 2
    /\ updated = 2
    /\ skipped = 0
    /\ Len(rows) = 2
====
